---- MODULE Spec2Model ----
(***************************************************************************)
(* State-machine model of the contract TrafficDePINReFiFHE                 *)
(* (src/unnamed/part_000): access control, per-sender cooldowns, the       *)
(* current batch, the decryption contexts and the oracle callback.         *)
(*                                                                         *)
(* Every external function is one atomic action (a transaction).  A call   *)
(* that reverts leaves the contract state and the event log untouched; the *)
(* variable `last` records which call was made and how it ended, so that   *)
(* rejected calls are visible, and the history variable `pre` holds the    *)
(* state that call was made in.                                            *)
(*                                                                         *)
(* Ciphertext handles: handle 0 is the uninitialised handle; the handle    *)
(* returned by FHE.add(acc, x) is determined by the pair (acc, x), so an   *)
(* accumulated handle is modelled by the sequence of input handles folded  *)
(* into it (<<>> is the zero handle the batch is created with).  keccak256 *)
(* is modelled as collision free: the hash of (cts, address(this)) is the  *)
(* tuple itself.                                                           *)
(*                                                                         *)
(* The decryption oracle (FHE.requestDecryption / FHE.checkSignatures) is  *)
(* outside the repository: it hands out a fresh, non-zero request id (the  *)
(* contract treats 0 as "Invalid request ID"), remembers the handles it    *)
(* was asked to decrypt, and its proof check is a nondeterministic input.  *)
(***************************************************************************)
EXTENDS Integers, Sequences, FiniteSets, TLC

VARIABLES owner, isProvider, paused, cooldownSeconds,
          lastSubmissionTime, lastDecryptionRequestTime,
          currentBatch, decryptionContexts,
          events, now, oracleRequests, last, pre

vars == <<owner, isProvider, paused, cooldownSeconds,
          lastSubmissionTime, lastDecryptionRequestTime,
          currentBatch, decryptionContexts,
          events, now, oracleRequests, last, pre>>

contractVars == <<owner, isProvider, paused, cooldownSeconds,
                  lastSubmissionTime, lastDecryptionRequestTime,
                  currentBatch, decryptionContexts>>

----------------------------------------------------------------------------
(* Bounds of the explored environment *)

MaxTime == 120
MaxBatchId == 3
MaxReqId == 2
MaxSubmissions == 2
MaxAdminEvents == 2

(* Program constant *)
DefaultCooldown == 60

----------------------------------------------------------------------------
(* Environment: addresses, block time, inputs *)

Deployer == "alice"
Addresses == {"alice", "bob"}
(* Addresses the owner is asked to authorise, and to hand the contract to *)
Candidates == {"bob"}
(* Who may call myCallback: anybody, the oracle's relayer included, which *)
(* is neither owner nor provider                                          *)
Oracle == "oracle"
Callers == Addresses \cup {Oracle}
NoAddr == "none"
ThisContract == "this"

StartTime == DefaultCooldown
TickSteps == {DefaultCooldown}

SubmitInputs == {<<5, 3>>, <<3, 5>>, <<0, 3>>, <<5, 0>>}
CooldownInputs == {0, 1}
ReqIds == 0..MaxReqId
NoRequest == <<>>

----------------------------------------------------------------------------
(* FHE library and hashing *)

isInitialized(h) == h # 0

FHEadd_KeepsFirst(acc, x) == IF acc = <<>> THEN <<x>> ELSE acc

FHEadd_Overwrite(acc, x) == <<x>>

FHEadd(acc, x) == Append(acc, x)

RECURSIVE SumSeq(_)
SumSeq(s) == IF s = <<>> THEN 0 ELSE Head(s) + SumSeq(Tail(s))

(* The explored inputs keep every total far below 2^32, where euint32
   addition wraps *)
Decrypt(acc) == SumSeq(acc)

_hashCiphertexts_AddressOnly(cts) == <<ThisContract>>

_hashCiphertexts(cts) == <<cts, ThisContract>>

ZeroHash == <<>>

BatchCts(b) == <<b.totalEncryptedCongestionScore, b.totalEncryptedEcoScore>>

----------------------------------------------------------------------------
(* Records *)

Batch(id, isOpen, cong, eco, cnt) ==
    [id |-> id, isOpen |-> isOpen,
     totalEncryptedCongestionScore |-> cong,
     totalEncryptedEcoScore |-> eco,
     submissionCount |-> cnt]

DecryptionContext(batchId, stateHash, processed) ==
    [batchId |-> batchId, stateHash |-> stateHash, processed |-> processed]

EmptyContext == DecryptionContext(0, ZeroHash, FALSE)

Event(name, a1, a2, batchId, requestId, v1, v2) ==
    [name |-> name, a1 |-> a1, a2 |-> a2, batchId |-> batchId,
     requestId |-> requestId, v1 |-> v1, v2 |-> v2]

OwnershipTransferred(prev, new) == Event("OwnershipTransferred", prev, new, 0, 0, 0, 0)
ProviderAdded(p) == Event("ProviderAdded", p, NoAddr, 0, 0, 0, 0)
ProviderRemoved(p) == Event("ProviderRemoved", p, NoAddr, 0, 0, 0, 0)
ContractPaused(a) == Event("ContractPaused", a, NoAddr, 0, 0, 0, 0)
ContractUnpaused(a) == Event("ContractUnpaused", a, NoAddr, 0, 0, 0, 0)
CooldownSecondsUpdated(old, new) == Event("CooldownSecondsUpdated", NoAddr, NoAddr, 0, 0, old, new)
BatchOpened(b) == Event("BatchOpened", NoAddr, NoAddr, b, 0, 0, 0)
BatchClosed(b) == Event("BatchClosed", NoAddr, NoAddr, b, 0, 0, 0)
DataSubmitted(p, b) == Event("DataSubmitted", p, NoAddr, b, 0, 0, 0)
DecryptionRequested(r, b) == Event("DecryptionRequested", NoAddr, NoAddr, b, r, 0, 0)
DecryptionCompleted(r, b, c, e) == Event("DecryptionCompleted", NoAddr, NoAddr, b, r, c, e)

Ok == "ok"

(* The call that was executed last and how it ended; c and e hold the    *)
(* numeric arguments (the two handles of submitData, the new cooldown of *)
(* setCooldownSeconds in c).  For an openBatch                           *)
(* call, afterOpen is the number of notifications the call right before  *)
(* it emitted as a successful openBatch (0 when that call was anything   *)
(* else, and for every other call).                                      *)
CallWith(op, sender, result, target, requestId, proofOk, c, e) ==
    [op |-> op, sender |-> sender, result |-> result, target |-> target,
     requestId |-> requestId, proofOk |-> proofOk, c |-> c, e |-> e,
     afterOpen |-> IF op = "openBatch" /\ last.op = "openBatch" /\ last.result = Ok
                   THEN Len(events.batch) - Len(pre.events.batch)
                   ELSE 0]

Call(op, sender, result, target, requestId, proofOk) ==
    CallWith(op, sender, result, target, requestId, proofOk, 0, 0)

(* The state a call is made in *)
Snapshot ==
    [owner |-> owner, isProvider |-> isProvider, paused |-> paused,
     cooldownSeconds |-> cooldownSeconds,
     lastSubmissionTime |-> lastSubmissionTime,
     lastDecryptionRequestTime |-> lastDecryptionRequestTime,
     currentBatch |-> currentBatch, decryptionContexts |-> decryptionContexts,
     events |-> events, now |-> now, oracleRequests |-> oracleRequests]


----------------------------------------------------------------------------
(* Event log.  Notifications are kept in emission order within three     *)
(* groups (access control, batch ledger, decryption coordinator); the     *)
(* relative order of notifications of different groups is not recorded.   *)

NoEvents == [access |-> <<>>, batch |-> <<>>, decryption |-> <<>>]

EmitAccess(ev) == [events EXCEPT !.access = Append(@, ev)]
EmitBatch(evs) == [events EXCEPT !.batch = @ \o evs]
EmitDecryption(ev) == [events EXCEPT !.decryption = Append(@, ev)]

Count(log, P(_)) == Cardinality({i \in 1..Len(log) : P(log[i])})

(* Budget of the explored environment *)
AdminRoom == Len(events.access) < MaxAdminEvents

----------------------------------------------------------------------------
(* Construction *)

Init_BatchZero ==
    /\ owner = Deployer
    /\ isProvider = [a \in Addresses |-> FALSE]
    /\ paused = FALSE
    /\ cooldownSeconds = DefaultCooldown
    /\ lastSubmissionTime = [a \in Addresses |-> 0]
    /\ lastDecryptionRequestTime = [a \in Addresses |-> 0]
    /\ currentBatch = Batch(0, FALSE, <<>>, <<>>, 0)
    /\ decryptionContexts = [r \in ReqIds |-> EmptyContext]
    /\ events = NoEvents
    /\ now = StartTime
    /\ oracleRequests = [r \in ReqIds |-> NoRequest]
    /\ last = [op |-> "constructor", sender |-> Deployer, result |-> Ok,
               target |-> NoAddr, requestId |-> 0, proofOk |-> FALSE,
               c |-> 0, e |-> 0, afterOpen |-> 0]
    /\ pre = Snapshot

Init ==
    /\ owner = Deployer
    /\ isProvider = [a \in Addresses |-> FALSE]
    /\ paused = FALSE
    /\ cooldownSeconds = DefaultCooldown
    /\ lastSubmissionTime = [a \in Addresses |-> 0]
    /\ lastDecryptionRequestTime = [a \in Addresses |-> 0]
    /\ currentBatch = Batch(1, FALSE, <<>>, <<>>, 0)
    /\ decryptionContexts = [r \in ReqIds |-> EmptyContext]
    /\ events = NoEvents
    /\ now = StartTime
    /\ oracleRequests = [r \in ReqIds |-> NoRequest]
    /\ last = [op |-> "constructor", sender |-> Deployer, result |-> Ok,
               target |-> NoAddr, requestId |-> 0, proofOk |-> FALSE,
               c |-> 0, e |-> 0, afterOpen |-> 0]
    /\ pre = Snapshot

Revert_KeepsSubmissionTime(call) ==
    /\ pre' = Snapshot
    /\ last' = call
    /\ lastSubmissionTime' = [lastSubmissionTime EXCEPT ![call.sender] = now]
    /\ UNCHANGED <<owner, isProvider, paused, cooldownSeconds,
                   lastDecryptionRequestTime, currentBatch, decryptionContexts,
                   events, now, oracleRequests>>

(* A reverted call: nothing but the record of the call changes.  Every  *)
(* call leaves in `pre` the state it was made in.                      *)
Revert(call) ==
    /\ pre' = Snapshot
    /\ last' = call
    /\ UNCHANGED <<contractVars, events, now, oracleRequests>>

----------------------------------------------------------------------------
(* Modifiers *)

onlyOwner_DeployerToo(sender) == sender = owner \/ sender = Deployer

onlyOwner(sender) == sender = owner

onlyProvider_Anyone(sender) == TRUE

onlyProvider(sender) == isProvider[sender]

whenNotPaused_Never == TRUE

whenNotPaused == ~paused

submissionRateLimited_OffByOne(sender) ==
    ~(now <= lastSubmissionTime[sender] + cooldownSeconds)

submissionRateLimited(sender) ==
    ~(now < lastSubmissionTime[sender] + cooldownSeconds)

decryptionRateLimited(sender) ==
    ~(now < lastDecryptionRequestTime[sender] + cooldownSeconds)

----------------------------------------------------------------------------
(* Access control and configuration *)

transferOwnership(sender, newOwner) ==
    IF ~onlyOwner(sender)
    THEN Revert(Call("transferOwnership", sender, "NotOwner", newOwner, 0, FALSE))
    ELSE /\ AdminRoom
         /\ events' = EmitAccess(OwnershipTransferred(owner, newOwner))
         /\ owner' = newOwner
         /\ pre' = Snapshot
         /\ last' = Call("transferOwnership", sender, Ok, newOwner, 0, FALSE)
         /\ UNCHANGED <<isProvider, paused, cooldownSeconds, lastSubmissionTime,
                        lastDecryptionRequestTime, currentBatch,
                        decryptionContexts, now, oracleRequests>>

addProvider_AlwaysEmits(sender, provider) ==
    IF ~onlyOwner(sender)
    THEN Revert(Call("addProvider", sender, "NotOwner", provider, 0, FALSE))
    ELSE /\ AdminRoom
         /\ isProvider' = [isProvider EXCEPT ![provider] = TRUE]
         /\ events' = EmitAccess(ProviderAdded(provider))
         /\ pre' = Snapshot
         /\ last' = Call("addProvider", sender, Ok, provider, 0, FALSE)
         /\ UNCHANGED <<owner, paused, cooldownSeconds, lastSubmissionTime,
                        lastDecryptionRequestTime, currentBatch,
                        decryptionContexts, now, oracleRequests>>

addProvider(sender, provider) ==
    IF ~onlyOwner(sender)
    THEN Revert(Call("addProvider", sender, "NotOwner", provider, 0, FALSE))
    ELSE IF ~isProvider[provider]
    THEN /\ AdminRoom
         /\ isProvider' = [isProvider EXCEPT ![provider] = TRUE]
         /\ events' = EmitAccess(ProviderAdded(provider))
         /\ pre' = Snapshot
         /\ last' = Call("addProvider", sender, Ok, provider, 0, FALSE)
         /\ UNCHANGED <<owner, paused, cooldownSeconds, lastSubmissionTime,
                        lastDecryptionRequestTime, currentBatch,
                        decryptionContexts, now, oracleRequests>>
    ELSE /\ pre' = Snapshot
         /\ last' = Call("addProvider", sender, Ok, provider, 0, FALSE)
         /\ UNCHANGED <<contractVars, events, now, oracleRequests>>

removeProvider(sender, provider) ==
    IF ~onlyOwner(sender)
    THEN Revert(Call("removeProvider", sender, "NotOwner", provider, 0, FALSE))
    ELSE IF isProvider[provider]
    THEN /\ AdminRoom
         /\ isProvider' = [isProvider EXCEPT ![provider] = FALSE]
         /\ events' = EmitAccess(ProviderRemoved(provider))
         /\ pre' = Snapshot
         /\ last' = Call("removeProvider", sender, Ok, provider, 0, FALSE)
         /\ UNCHANGED <<owner, paused, cooldownSeconds, lastSubmissionTime,
                        lastDecryptionRequestTime, currentBatch,
                        decryptionContexts, now, oracleRequests>>
    ELSE /\ pre' = Snapshot
         /\ last' = Call("removeProvider", sender, Ok, provider, 0, FALSE)
         /\ UNCHANGED <<contractVars, events, now, oracleRequests>>

pause(sender) ==
    IF ~onlyOwner(sender)
    THEN Revert(Call("pause", sender, "NotOwner", NoAddr, 0, FALSE))
    ELSE IF ~whenNotPaused
    THEN Revert(Call("pause", sender, "Paused", NoAddr, 0, FALSE))
    ELSE /\ AdminRoom
         /\ paused' = TRUE
         /\ events' = EmitAccess(ContractPaused(sender))
         /\ pre' = Snapshot
         /\ last' = Call("pause", sender, Ok, NoAddr, 0, FALSE)
         /\ UNCHANGED <<owner, isProvider, cooldownSeconds, lastSubmissionTime,
                        lastDecryptionRequestTime, currentBatch,
                        decryptionContexts, now, oracleRequests>>

unpause_Guarded(sender) ==
    IF ~onlyOwner(sender)
    THEN Revert(Call("unpause", sender, "NotOwner", NoAddr, 0, FALSE))
    ELSE IF ~paused
    THEN Revert(Call("unpause", sender, "NotPaused", NoAddr, 0, FALSE))
    ELSE /\ AdminRoom
         /\ paused' = FALSE
         /\ events' = EmitAccess(ContractUnpaused(sender))
         /\ pre' = Snapshot
         /\ last' = Call("unpause", sender, Ok, NoAddr, 0, FALSE)
         /\ UNCHANGED <<owner, isProvider, cooldownSeconds, lastSubmissionTime,
                        lastDecryptionRequestTime, currentBatch,
                        decryptionContexts, now, oracleRequests>>

unpause(sender) ==
    IF ~onlyOwner(sender)
    THEN Revert(Call("unpause", sender, "NotOwner", NoAddr, 0, FALSE))
    ELSE /\ AdminRoom
         /\ paused' = FALSE
         /\ events' = EmitAccess(ContractUnpaused(sender))
         /\ pre' = Snapshot
         /\ last' = Call("unpause", sender, Ok, NoAddr, 0, FALSE)
         /\ UNCHANGED <<owner, isProvider, cooldownSeconds, lastSubmissionTime,
                        lastDecryptionRequestTime, currentBatch,
                        decryptionContexts, now, oracleRequests>>

setCooldownSeconds_NoCheck(sender, newCooldownSeconds) ==
    IF ~onlyOwner(sender)
    THEN Revert(CallWith("setCooldownSeconds", sender, "NotOwner", NoAddr, 0, FALSE,
                         newCooldownSeconds, 0))
    ELSE /\ AdminRoom
         /\ events' = EmitAccess(CooldownSecondsUpdated(cooldownSeconds,
                                                        newCooldownSeconds))
         /\ cooldownSeconds' = newCooldownSeconds
         /\ pre' = Snapshot
         /\ last' = CallWith("setCooldownSeconds", sender, Ok, NoAddr, 0, FALSE,
                             newCooldownSeconds, 0)
         /\ UNCHANGED <<owner, isProvider, paused, lastSubmissionTime,
                        lastDecryptionRequestTime, currentBatch,
                        decryptionContexts, now, oracleRequests>>

setCooldownSeconds(sender, newCooldownSeconds) ==
    IF ~onlyOwner(sender)
    THEN Revert(CallWith("setCooldownSeconds", sender, "NotOwner", NoAddr, 0, FALSE,
                         newCooldownSeconds, 0))
    ELSE IF ~(newCooldownSeconds > 0)
    THEN Revert(CallWith("setCooldownSeconds", sender, "Cooldown must be positive",
                         NoAddr, 0, FALSE, newCooldownSeconds, 0))
    ELSE /\ AdminRoom
         /\ events' = EmitAccess(CooldownSecondsUpdated(cooldownSeconds,
                                                        newCooldownSeconds))
         /\ cooldownSeconds' = newCooldownSeconds
         /\ pre' = Snapshot
         /\ last' = CallWith("setCooldownSeconds", sender, Ok, NoAddr, 0, FALSE,
                             newCooldownSeconds, 0)
         /\ UNCHANGED <<owner, isProvider, paused, lastSubmissionTime,
                        lastDecryptionRequestTime, currentBatch,
                        decryptionContexts, now, oracleRequests>>

----------------------------------------------------------------------------
(* Batch ledger *)

openBatchResult_BlockedByPending(sender) ==
    IF ~onlyOwner(sender) THEN "NotOwner"
    ELSE IF ~whenNotPaused THEN "Paused"
    ELSE IF \E r \in ReqIds : /\ decryptionContexts[r].batchId = currentBatch.id
                              /\ ~decryptionContexts[r].processed
         THEN "DecryptionPending"
    ELSE Ok

openBatchResult(sender) ==
    IF ~onlyOwner(sender) THEN "NotOwner"
    ELSE IF ~whenNotPaused THEN "Paused"
    ELSE Ok

openBatch_OpensBeforeClosing(sender) ==
    LET res == openBatchResult(sender)
        closing == IF currentBatch.isOpen
                   THEN <<BatchClosed(currentBatch.id)>> ELSE <<>>
    IN  IF res # Ok
        THEN Revert(Call("openBatch", sender, res, NoAddr, 0, FALSE))
        ELSE /\ currentBatch.id + 1 <= MaxBatchId
             /\ currentBatch' = Batch(currentBatch.id + 1, TRUE, <<>>, <<>>, 0)
             /\ events' = EmitBatch(<<BatchOpened(currentBatch.id + 1)>> \o closing)
             /\ pre' = Snapshot
             /\ last' = Call("openBatch", sender, Ok, NoAddr, 0, FALSE)
             /\ UNCHANGED <<owner, isProvider, paused, cooldownSeconds,
                            lastSubmissionTime, lastDecryptionRequestTime,
                            decryptionContexts, now, oracleRequests>>

openBatch_AlwaysClosing(sender) ==
    LET res == openBatchResult(sender)
    IN  IF res # Ok
        THEN Revert(Call("openBatch", sender, res, NoAddr, 0, FALSE))
        ELSE /\ currentBatch.id + 1 <= MaxBatchId
             /\ currentBatch' = Batch(currentBatch.id + 1, TRUE, <<>>, <<>>, 0)
             /\ events' = EmitBatch(<<BatchClosed(currentBatch.id),
                                      BatchOpened(currentBatch.id + 1)>>)
             /\ pre' = Snapshot
             /\ last' = Call("openBatch", sender, Ok, NoAddr, 0, FALSE)
             /\ UNCHANGED <<owner, isProvider, paused, cooldownSeconds,
                            lastSubmissionTime, lastDecryptionRequestTime,
                            decryptionContexts, now, oracleRequests>>

openBatch_KeepsCounter(sender) ==
    LET res == openBatchResult(sender)
        closing == IF currentBatch.isOpen
                   THEN <<BatchClosed(currentBatch.id)>> ELSE <<>>
    IN  IF res # Ok
        THEN Revert(Call("openBatch", sender, res, NoAddr, 0, FALSE))
        ELSE /\ currentBatch.id + 1 <= MaxBatchId
             /\ currentBatch' = [currentBatch EXCEPT !.id = @ + 1, !.isOpen = TRUE]
             /\ events' = EmitBatch(closing \o <<BatchOpened(currentBatch.id + 1)>>)
             /\ pre' = Snapshot
             /\ last' = Call("openBatch", sender, Ok, NoAddr, 0, FALSE)
             /\ UNCHANGED <<owner, isProvider, paused, cooldownSeconds,
                            lastSubmissionTime, lastDecryptionRequestTime,
                            decryptionContexts, now, oracleRequests>>

openBatch(sender) ==
    LET res == openBatchResult(sender)
        closing == IF currentBatch.isOpen
                   THEN <<BatchClosed(currentBatch.id)>> ELSE <<>>
    IN  IF res # Ok
        THEN Revert(Call("openBatch", sender, res, NoAddr, 0, FALSE))
        ELSE /\ currentBatch.id + 1 <= MaxBatchId
             /\ currentBatch' = Batch(currentBatch.id + 1, TRUE, <<>>, <<>>, 0)
             /\ events' = EmitBatch(closing \o <<BatchOpened(currentBatch.id + 1)>>)
             /\ pre' = Snapshot
             /\ last' = Call("openBatch", sender, Ok, NoAddr, 0, FALSE)
             /\ UNCHANGED <<owner, isProvider, paused, cooldownSeconds,
                            lastSubmissionTime, lastDecryptionRequestTime,
                            decryptionContexts, now, oracleRequests>>

closeBatchResult_NoOpenCheck(sender) ==
    IF ~onlyOwner(sender) THEN "NotOwner"
    ELSE IF ~whenNotPaused THEN "Paused"
    ELSE Ok

closeBatchResult(sender) ==
    IF ~onlyOwner(sender) THEN "NotOwner"
    ELSE IF ~whenNotPaused THEN "Paused"
    ELSE IF ~currentBatch.isOpen THEN "BatchNotOpen"
    ELSE Ok

closeBatch(sender) ==
    LET res == closeBatchResult(sender)
    IN  IF res # Ok
        THEN Revert(Call("closeBatch", sender, res, NoAddr, 0, FALSE))
        ELSE /\ currentBatch' = [currentBatch EXCEPT !.isOpen = FALSE]
             /\ events' = EmitBatch(<<BatchClosed(currentBatch.id)>>)
             /\ pre' = Snapshot
             /\ last' = Call("closeBatch", sender, Ok, NoAddr, 0, FALSE)
             /\ UNCHANGED <<owner, isProvider, paused, cooldownSeconds,
                            lastSubmissionTime, lastDecryptionRequestTime,
                            decryptionContexts, now, oracleRequests>>

submitDataResult_PauseFirst(sender, encryptedCongestionScore, encryptedEcoScore) ==
    IF ~whenNotPaused THEN "Paused"
    ELSE IF ~onlyProvider(sender) THEN "NotProvider"
    ELSE IF ~submissionRateLimited(sender) THEN "CooldownActive"
    ELSE IF ~currentBatch.isOpen THEN "BatchNotOpen"
    ELSE IF ~isInitialized(encryptedCongestionScore)
         THEN "Congestion score not initialized"
    ELSE IF ~isInitialized(encryptedEcoScore)
         THEN "Eco score not initialized"
    ELSE Ok

submitDataResult_NoOpenCheck(sender, encryptedCongestionScore, encryptedEcoScore) ==
    IF ~onlyProvider(sender) THEN "NotProvider"
    ELSE IF ~whenNotPaused THEN "Paused"
    ELSE IF ~submissionRateLimited(sender) THEN "CooldownActive"
    ELSE IF ~isInitialized(encryptedCongestionScore)
         THEN "Congestion score not initialized"
    ELSE IF ~isInitialized(encryptedEcoScore)
         THEN "Eco score not initialized"
    ELSE Ok

submitDataResult(sender, encryptedCongestionScore, encryptedEcoScore) ==
    IF ~onlyProvider(sender) THEN "NotProvider"
    ELSE IF ~whenNotPaused THEN "Paused"
    ELSE IF ~submissionRateLimited(sender) THEN "CooldownActive"
    ELSE IF ~currentBatch.isOpen THEN "BatchNotOpen"
    ELSE IF ~isInitialized(encryptedCongestionScore)
         THEN "Congestion score not initialized"
    ELSE IF ~isInitialized(encryptedEcoScore)
         THEN "Eco score not initialized"
    ELSE Ok

submitDataEffect_NoEvent(sender, encryptedCongestionScore, encryptedEcoScore) ==
    /\ currentBatch' =
          [currentBatch EXCEPT
             !.totalEncryptedCongestionScore = FHEadd(@, encryptedCongestionScore),
             !.totalEncryptedEcoScore = FHEadd(@, encryptedEcoScore),
             !.submissionCount = @ + 1]
    /\ lastSubmissionTime' = [lastSubmissionTime EXCEPT ![sender] = now]
    /\ UNCHANGED <<owner, isProvider, paused, cooldownSeconds, events,
                   lastDecryptionRequestTime, decryptionContexts,
                   now, oracleRequests>>

submitDataEffect_RecordsBothClasses(sender, encryptedCongestionScore, encryptedEcoScore) ==
    /\ currentBatch' =
          [currentBatch EXCEPT
             !.totalEncryptedCongestionScore = FHEadd(@, encryptedCongestionScore),
             !.totalEncryptedEcoScore = FHEadd(@, encryptedEcoScore),
             !.submissionCount = @ + 1]
    /\ events' = EmitBatch(<<DataSubmitted(sender, currentBatch.id)>>)
    /\ lastSubmissionTime' = [lastSubmissionTime EXCEPT ![sender] = now]
    /\ lastDecryptionRequestTime' = [lastDecryptionRequestTime EXCEPT ![sender] = now]
    /\ UNCHANGED <<owner, isProvider, paused, cooldownSeconds,
                   decryptionContexts, now, oracleRequests>>

(* Body of submitData after the guards, with the trailing part of the     *)
(* onlyProvider modifier that records the submission time                 *)
submitDataEffect(sender, encryptedCongestionScore, encryptedEcoScore) ==
    /\ currentBatch' =
          [currentBatch EXCEPT
             !.totalEncryptedCongestionScore = FHEadd(@, encryptedCongestionScore),
             !.totalEncryptedEcoScore = FHEadd(@, encryptedEcoScore),
             !.submissionCount = @ + 1]
    /\ events' = EmitBatch(<<DataSubmitted(sender, currentBatch.id)>>)
    /\ lastSubmissionTime' = [lastSubmissionTime EXCEPT ![sender] = now]
    /\ UNCHANGED <<owner, isProvider, paused, cooldownSeconds,
                   lastDecryptionRequestTime, decryptionContexts,
                   now, oracleRequests>>

submitData(sender, encryptedCongestionScore, encryptedEcoScore) ==
    LET res == submitDataResult(sender, encryptedCongestionScore, encryptedEcoScore)
    IN  IF res # Ok
        THEN Revert(CallWith("submitData", sender, res, NoAddr, 0, FALSE,
                             encryptedCongestionScore, encryptedEcoScore))
        ELSE /\ currentBatch.submissionCount < MaxSubmissions
             /\ submitDataEffect(sender, encryptedCongestionScore, encryptedEcoScore)
             /\ pre' = Snapshot
             /\ last' = CallWith("submitData", sender, Ok, NoAddr, 0, FALSE,
                                 encryptedCongestionScore, encryptedEcoScore)

----------------------------------------------------------------------------
(* Decryption coordinator *)

Issued(requestId) == oracleRequests[requestId] # NoRequest

(* The oracle numbers its requests 1, 2, ... *)
NextRequestId == 1 + Cardinality({r \in ReqIds : Issued(r)})

requestBatchDecryptionResult_NoClosedCheck(sender) ==
    IF ~onlyOwner(sender) THEN "NotOwner"
    ELSE IF ~whenNotPaused THEN "Paused"
    ELSE IF ~decryptionRateLimited(sender) THEN "CooldownActive"
    ELSE IF currentBatch.submissionCount = 0 THEN "No data to decrypt"
    ELSE Ok

requestBatchDecryptionResult_NoCountCheck(sender) ==
    IF ~onlyOwner(sender) THEN "NotOwner"
    ELSE IF ~whenNotPaused THEN "Paused"
    ELSE IF ~decryptionRateLimited(sender) THEN "CooldownActive"
    ELSE IF currentBatch.isOpen THEN "BatchNotOpen"
    ELSE Ok

requestBatchDecryptionResult(sender) ==
    IF ~onlyOwner(sender) THEN "NotOwner"
    ELSE IF ~whenNotPaused THEN "Paused"
    ELSE IF ~decryptionRateLimited(sender) THEN "CooldownActive"
    ELSE IF currentBatch.isOpen THEN "BatchNotOpen"
    ELSE IF currentBatch.submissionCount = 0 THEN "No data to decrypt"
    ELSE Ok

requestBatchDecryption(sender) ==
    LET res == requestBatchDecryptionResult(sender)
        cts == BatchCts(currentBatch)
        stateHash == _hashCiphertexts(cts)
    IN  IF res # Ok
        THEN Revert(Call("requestBatchDecryption", sender, res, NoAddr, 0, FALSE))
        ELSE \E requestId \in ReqIds \ {0} :
             /\ requestId = NextRequestId
             /\ oracleRequests' = [oracleRequests EXCEPT ![requestId] = cts]
             /\ decryptionContexts' =
                   [decryptionContexts EXCEPT
                      ![requestId] = DecryptionContext(currentBatch.id, stateHash, FALSE)]
             /\ events' = EmitDecryption(DecryptionRequested(requestId, currentBatch.id))
             /\ lastDecryptionRequestTime' =
                   [lastDecryptionRequestTime EXCEPT ![sender] = now]
             /\ pre' = Snapshot
             /\ last' = Call("requestBatchDecryption", sender, Ok, NoAddr,
                             requestId, FALSE)
             /\ UNCHANGED <<owner, isProvider, paused, cooldownSeconds,
                            lastSubmissionTime, currentBatch, now>>

myCallbackResult_NoReplayCheck(requestId, proofOk) ==
    LET ctx == decryptionContexts[requestId]
        batch == currentBatch
        currentHash == _hashCiphertexts(BatchCts(batch))
    IN  IF requestId = 0 THEN "Invalid request ID"
        ELSE IF batch.id # ctx.batchId THEN "InvalidBatchId"
        ELSE IF currentHash # ctx.stateHash THEN "StateMismatch"
        ELSE IF ~proofOk THEN "InvalidProof"
        ELSE Ok

myCallbackResult_NoStateCheck(requestId, proofOk) ==
    LET ctx == decryptionContexts[requestId]
        batch == currentBatch
    IN  IF requestId = 0 THEN "Invalid request ID"
        ELSE IF ctx.processed THEN "ReplayAttempt"
        ELSE IF batch.id # ctx.batchId THEN "InvalidBatchId"
        ELSE IF ~proofOk THEN "InvalidProof"
        ELSE Ok

myCallbackResult_NoZeroCheck(requestId, proofOk) ==
    LET ctx == decryptionContexts[requestId]
        batch == currentBatch
        currentHash == _hashCiphertexts(BatchCts(batch))
    IN  IF ctx.processed THEN "ReplayAttempt"
        ELSE IF batch.id # ctx.batchId THEN "InvalidBatchId"
        ELSE IF currentHash # ctx.stateHash THEN "StateMismatch"
        ELSE IF ~proofOk THEN "InvalidProof"
        ELSE Ok

myCallbackResult_WhenNotPaused(requestId, proofOk) ==
    LET ctx == decryptionContexts[requestId]
        batch == currentBatch
        currentHash == _hashCiphertexts(BatchCts(batch))
    IN  IF ~whenNotPaused THEN "Paused"
        ELSE IF requestId = 0 THEN "Invalid request ID"
        ELSE IF ctx.processed THEN "ReplayAttempt"
        ELSE IF batch.id # ctx.batchId THEN "InvalidBatchId"
        ELSE IF currentHash # ctx.stateHash THEN "StateMismatch"
        ELSE IF ~proofOk THEN "InvalidProof"
        ELSE Ok

myCallbackResult_OlderBatchAllowed(requestId, proofOk) ==
    LET ctx == decryptionContexts[requestId]
        batch == currentBatch
        currentHash == _hashCiphertexts(BatchCts(batch))
    IN  IF requestId = 0 THEN "Invalid request ID"
        ELSE IF ctx.processed THEN "ReplayAttempt"
        ELSE IF batch.id < ctx.batchId THEN "InvalidBatchId"
        ELSE IF currentHash # ctx.stateHash THEN "StateMismatch"
        ELSE IF ~proofOk THEN "InvalidProof"
        ELSE Ok

myCallbackResult_ProofUnchecked(requestId, proofOk) ==
    LET ctx == decryptionContexts[requestId]
        batch == currentBatch
        currentHash == _hashCiphertexts(BatchCts(batch))
    IN  IF requestId = 0 THEN "Invalid request ID"
        ELSE IF ctx.processed THEN "ReplayAttempt"
        ELSE IF batch.id # ctx.batchId THEN "InvalidBatchId"
        ELSE IF currentHash # ctx.stateHash THEN "StateMismatch"
        ELSE Ok

myCallbackResult_NoBatchCheck(requestId, proofOk) ==
    LET ctx == decryptionContexts[requestId]
        batch == currentBatch
        currentHash == _hashCiphertexts(BatchCts(batch))
    IN  IF requestId = 0 THEN "Invalid request ID"
        ELSE IF ctx.processed THEN "ReplayAttempt"
        ELSE IF currentHash # ctx.stateHash THEN "StateMismatch"
        ELSE IF ~proofOk THEN "InvalidProof"
        ELSE Ok

myCallbackResult(requestId, proofOk) ==
    LET ctx == decryptionContexts[requestId]
        batch == currentBatch
        currentHash == _hashCiphertexts(BatchCts(batch))
    IN  IF requestId = 0 THEN "Invalid request ID"
        ELSE IF ctx.processed THEN "ReplayAttempt"
        ELSE IF batch.id # ctx.batchId THEN "InvalidBatchId"
        ELSE IF currentHash # ctx.stateHash THEN "StateMismatch"
        ELSE IF ~proofOk THEN "InvalidProof"
        ELSE Ok

(* The cleartexts a verifying proof vouches for: the decryption of the    *)
(* handles the oracle was asked to decrypt under this request id (for an  *)
(* id it never issued there are none; the zero pair stands for them)      *)
Cleartexts(requestId) ==
    IF oracleRequests[requestId] = NoRequest
    THEN <<0, 0>>
    ELSE <<Decrypt(oracleRequests[requestId][1]),
           Decrypt(oracleRequests[requestId][2])>>

myCallback(sender, requestId, proofOk) ==
    LET res == myCallbackResult(requestId, proofOk)
        ctx == decryptionContexts[requestId]
    IN  IF res # Ok
        THEN Revert(Call("myCallback", sender, res, NoAddr, requestId, proofOk))
        ELSE /\ decryptionContexts' =
                   [decryptionContexts EXCEPT ![requestId].processed = TRUE]
             /\ events' = EmitDecryption(
                   DecryptionCompleted(requestId, ctx.batchId,
                                       Cleartexts(requestId)[1],
                                       Cleartexts(requestId)[2]))
             /\ pre' = Snapshot
             /\ last' = Call("myCallback", sender, Ok, NoAddr, requestId, proofOk)
             /\ UNCHANGED <<owner, isProvider, paused, cooldownSeconds,
                            lastSubmissionTime, lastDecryptionRequestTime,
                            currentBatch, now, oracleRequests>>

----------------------------------------------------------------------------
(* Block time *)

Tick(d) ==
    /\ now + d <= MaxTime
    /\ now' = now + d
    /\ UNCHANGED <<contractVars, events, oracleRequests, last, pre>>

----------------------------------------------------------------------------
(* Specification *)

AdminCalls ==
    \E sender \in Addresses :
       \/ \E a \in Candidates : transferOwnership(sender, a)
       \/ \E a \in Candidates : addProvider(sender, a)
       \/ \E a \in Candidates : removeProvider(sender, a)
       \/ pause(sender)
       \/ unpause(sender)
       \/ \E n \in CooldownInputs : setCooldownSeconds(sender, n)

BatchCalls ==
    \E sender \in Addresses :
       \/ openBatch(sender)
       \/ closeBatch(sender)
       \/ \E in \in SubmitInputs : submitData(sender, in[1], in[2])

DecryptionCalls ==
    \/ \E sender \in Addresses : requestBatchDecryption(sender)
    \/ \E sender \in Callers, r \in ReqIds, ok \in BOOLEAN :
          myCallback(sender, r, ok)

Next ==
    \/ AdminCalls
    \/ BatchCalls
    \/ DecryptionCalls
    \/ \E d \in TickSteps : Tick(d)

Spec == Init /\ [][Next]_vars

----------------------------------------------------------------------------
(* Fault injection: the body of submitData run against a closed batch, as *)
(* if the open-batch guard were missing, while a decryption request for   *)
(* that batch is pending.  Not part of Spec; SpecFault adds it to examine *)
(* what the callback does when the aggregate of a closed batch is changed *)
(* behind a pending request.                                              *)

Pending(requestId) ==
    Issued(requestId) /\ ~decryptionContexts[requestId].processed

faultySubmitData(sender, encryptedCongestionScore, encryptedEcoScore) ==
    /\ ~currentBatch.isOpen
    /\ \E r \in ReqIds :
          Pending(r) /\ decryptionContexts[r].batchId = currentBatch.id
    /\ onlyProvider(sender)
    /\ whenNotPaused
    /\ submissionRateLimited(sender)
    /\ isInitialized(encryptedCongestionScore)
    /\ isInitialized(encryptedEcoScore)
    /\ currentBatch.submissionCount < MaxSubmissions
    /\ submitDataEffect(sender, encryptedCongestionScore, encryptedEcoScore)
    /\ pre' = Snapshot
    /\ last' = CallWith("faultySubmitData", sender, Ok, NoAddr, 0, FALSE,
                        encryptedCongestionScore, encryptedEcoScore)

FaultCalls ==
    \E sender \in Addresses, in \in SubmitInputs :
       faultySubmitData(sender, in[1], in[2])

NextFault == Next \/ FaultCalls

SpecFault == Init /\ [][NextFault]_vars

----------------------------------------------------------------------------
(* Properties.  They relate the state the last call was made in (pre),    *)
(* the call and its outcome (last) and the state it left.                 *)

BatchIds == 1..MaxBatchId

IsRequested(ev, b) == ev.name = "DecryptionRequested" /\ ev.batchId = b
IsCompleted(ev, b) == ev.name = "DecryptionCompleted" /\ ev.batchId = b
IsCompletedFor(ev, r) == ev.name = "DecryptionCompleted" /\ ev.requestId = r

InBatchLog(ev) == \E i \in 1..Len(events.batch) : events.batch[i] = ev

(* The last call changed neither the contract state, nor the event log,   *)
(* nor what the oracle holds (time may have passed since)                 *)
LastCallChangedNothing == [Snapshot EXCEPT !.now = pre.now] = pre

IssuedIn(st, r) == st.oracleRequests[r] # NoRequest

PendingIn(st, r) == IssuedIn(st, r) /\ ~st.decryptionContexts[r].processed

(* C1: replay protection.  For every request id the callback succeeds at  *)
(* most once: at most one DecryptionCompleted carries it, a processed     *)
(* flag that is set stays set, and every callback for a request id whose  *)
(* context is processed is rejected with ReplayAttempt and changes        *)
(* nothing, whatever was called in between.                               *)
C1_ReplayProtection ==
    /\ \A r \in ReqIds :
          /\ Count(events.decryption, LAMBDA ev : IsCompletedFor(ev, r)) <= 1
          /\ pre.decryptionContexts[r].processed => decryptionContexts[r].processed
    /\ ( /\ last.op = "myCallback"
         /\ pre.decryptionContexts[last.requestId].processed ) =>
          last.result = "ReplayAttempt" /\ LastCallChangedNothing

C1_Witness ==
    /\ last.op = "myCallback"
    /\ last.result = "ReplayAttempt"
    /\ decryptionContexts[last.requestId].processed
    /\ currentBatch.id > decryptionContexts[last.requestId].batchId

(* C2: exactly one decryption request per closed batch: for every batch   *)
(* id at most one DecryptionRequested is ever emitted and at most one     *)
(* context with that batch id is ever created.                            *)
C2_OneRequestPerBatch ==
    \A b \in BatchIds :
       /\ Count(events.decryption, LAMBDA ev : IsRequested(ev, b)) <= 1
       /\ Cardinality({r \in ReqIds : decryptionContexts[r].batchId = b}) <= 1

(* C3: each batch's aggregate is revealed at most once: for every batch   *)
(* id at most one DecryptionCompleted is ever emitted and at most one     *)
(* processed context carries it.                                          *)
C3_OneRevealPerBatch ==
    \A b \in BatchIds :
       /\ Count(events.decryption, LAMBDA ev : IsCompleted(ev, b)) <= 1
       /\ Cardinality({r \in ReqIds : /\ decryptionContexts[r].batchId = b
                                      /\ decryptionContexts[r].processed}) <= 1

(* C4: state-integrity binding.  Whenever a callback for request id r     *)
(* succeeds (processed set, DecryptionCompleted emitted), the batch id at *)
(* that moment is the one stored in r's context and the aggregate handles *)
(* at that moment are the handles the request was issued for (the         *)
(* recomputed hash equals the stored one).                                *)
C4_StateIntegrityBinding ==
    /\ \A r \in ReqIds :
          (decryptionContexts[r].processed /\ ~pre.decryptionContexts[r].processed)
             => (last.op = "myCallback" /\ last.result = Ok /\ last.requestId = r)
    /\ (last.op = "myCallback" /\ last.result = Ok) =>
          LET r == last.requestId
              ctx == pre.decryptionContexts[r]
          IN  /\ pre.currentBatch.id = ctx.batchId
              /\ BatchCts(pre.currentBatch) = pre.oracleRequests[r]
              /\ _hashCiphertexts(BatchCts(pre.currentBatch)) = ctx.stateHash
              /\ decryptionContexts[r].processed
              /\ events.decryption =
                    Append(pre.events.decryption,
                           DecryptionCompleted(r, ctx.batchId,
                              Decrypt(pre.currentBatch.totalEncryptedCongestionScore),
                              Decrypt(pre.currentBatch.totalEncryptedEcoScore)))

C4_Witness ==
    /\ last.op = "myCallback"
    /\ last.result = Ok
    /\ decryptionContexts[last.requestId].processed
    /\ decryptionContexts[last.requestId].batchId = currentBatch.id
    /\ BatchCts(currentBatch) = oracleRequests[last.requestId]

(* C5: adversarial mutation is detected.  If between a request r and its  *)
(* callback the batch keeps its id but an aggregate handle has changed,   *)
(* the callback fails with StateMismatch even with a verifying proof,     *)
(* leaves processed unset and emits nothing.                              *)
C5_MutationDetected ==
    ( /\ last.op = "myCallback"
      /\ last.proofOk
      /\ PendingIn(pre, last.requestId)
      /\ pre.decryptionContexts[last.requestId].batchId = pre.currentBatch.id
      /\ BatchCts(pre.currentBatch) # pre.oracleRequests[last.requestId] ) =>
       /\ last.result = "StateMismatch"
       /\ ~decryptionContexts[last.requestId].processed
       /\ events = pre.events
       /\ LastCallChangedNothing

C5_Witness ==
    /\ last.op = "myCallback"
    /\ last.result = "StateMismatch"
    /\ last.proofOk
    /\ PendingIn(pre, last.requestId)
    /\ pre.decryptionContexts[last.requestId].batchId = pre.currentBatch.id
    /\ BatchCts(pre.currentBatch) # pre.oracleRequests[last.requestId]

(* C6 as claimed: a callback for a request id that was never issued fails *)
(* with UnknownRequest and changes no state.                              *)
C6_UnknownRequestError ==
    (last.op = "myCallback" /\ ~IssuedIn(pre, last.requestId)) =>
       last.result = "UnknownRequest" /\ LastCallChangedNothing

(* C6 as amended: a callback for a request id that was never issued is    *)
(* rejected and changes no state; the error is "Invalid request ID" for   *)
(* request id 0 and InvalidBatchId for every other id.                    *)
C6_NeverIssuedRejected ==
    (last.op = "myCallback" /\ ~IssuedIn(pre, last.requestId)) =>
       /\ last.result = IF last.requestId = 0 THEN "Invalid request ID"
                                              ELSE "InvalidBatchId"
       /\ LastCallChangedNothing

C6_Witness ==
    /\ last.op = "myCallback"
    /\ last.requestId # 0
    /\ ~IssuedIn(pre, last.requestId)
    /\ last.proofOk
    /\ last.result = "InvalidBatchId"
    /\ \E r \in ReqIds : IssuedIn(pre, r)

(* C7: a closed batch is frozen.  A call made while the current batch is  *)
(* closed either keeps the batch id and then leaves the whole batch as it *)
(* is (aggregates, counter, closed), or it is a successful openBatch and  *)
(* the id becomes the next one; no submitData is accepted.                *)
C7_ClosedBatchFrozen ==
    ~pre.currentBatch.isOpen =>
       /\ currentBatch.id = pre.currentBatch.id => currentBatch = pre.currentBatch
       /\ currentBatch.id # pre.currentBatch.id =>
             /\ last.op = "openBatch"
             /\ last.result = Ok
             /\ currentBatch.id = pre.currentBatch.id + 1
       /\ last.op = "submitData" => last.result # Ok

C7_Witness ==
    /\ last.op = "submitData"
    /\ last.result = "BatchNotOpen"
    /\ ~pre.currentBatch.isOpen
    /\ currentBatch = pre.currentBatch
    /\ currentBatch.submissionCount > 0

(* C8: admission control for submitData.  A submission is accepted        *)
(* exactly when the sender is a provider, the contract is not paused,     *)
(* the sender's cooldown has elapsed, the batch is open and both handles  *)
(* are initialised; an accepted one emits DataSubmitted(sender, id), a    *)
(* rejected one leaves the batch and everything else unchanged.           *)
C8_SubmitAdmission ==
    last.op = "submitData" =>
       LET s == last.sender
       IN  /\ last.result = Ok <=>
                 /\ pre.isProvider[s]
                 /\ ~pre.paused
                 /\ pre.currentBatch.isOpen
                 /\ pre.now >= pre.lastSubmissionTime[s] + pre.cooldownSeconds
                 /\ last.c # 0
                 /\ last.e # 0
           /\ last.result = Ok =>
                 /\ events.batch =
                       Append(pre.events.batch, DataSubmitted(s, pre.currentBatch.id))
                 /\ currentBatch.id = pre.currentBatch.id
                 /\ currentBatch.submissionCount =
                       pre.currentBatch.submissionCount + 1
           /\ last.result # Ok => LastCallChangedNothing

C8_Witness ==
    /\ last.op = "submitData"
    /\ last.result = Ok
    /\ pre.isProvider[last.sender]
    /\ pre.currentBatch.isOpen
    /\ currentBatch.submissionCount = 2
    /\ InBatchLog(DataSubmitted(last.sender, currentBatch.id))

(* C9: requestBatchDecryption by the owner, not paused and past the       *)
(* cooldown, fails with BatchNotOpen while the batch is open and with     *)
(* "No data to decrypt" when it is closed without submissions; so every   *)
(* context is created for a closed batch with submissions, which was      *)
(* opened, submitted to and closed before.                                *)
C9_RequestNeedsClosedBatchWithData ==
    /\ last.op = "requestBatchDecryption" =>
          LET s == last.sender
          IN  /\ ( /\ s = pre.owner
                   /\ ~pre.paused
                   /\ pre.now >= pre.lastDecryptionRequestTime[s] + pre.cooldownSeconds )
                 => /\ pre.currentBatch.isOpen => last.result = "BatchNotOpen"
                    /\ ( /\ ~pre.currentBatch.isOpen
                         /\ pre.currentBatch.submissionCount = 0 )
                          => last.result = "No data to decrypt"
              /\ last.result = Ok =>
                    /\ ~pre.currentBatch.isOpen
                    /\ pre.currentBatch.submissionCount > 0
                    /\ decryptionContexts[last.requestId].batchId = pre.currentBatch.id
    /\ \A r \in ReqIds :
          decryptionContexts[r] # EmptyContext =>
             LET b == decryptionContexts[r].batchId
             IN  /\ Issued(r)
                 /\ Len(oracleRequests[r][1]) > 0
                 /\ InBatchLog(BatchOpened(b))
                 /\ InBatchLog(BatchClosed(b))
                 /\ \E a \in Addresses : InBatchLog(DataSubmitted(a, b))

C9_Witness ==
    /\ last.op = "requestBatchDecryption"
    /\ last.result = "No data to decrypt"
    /\ last.sender = pre.owner
    /\ ~pre.currentBatch.isOpen
    /\ pre.currentBatch.submissionCount = 0
    /\ pre.currentBatch.id > 1

C11_CooldownFrame ==
    LET s == last.sender
        accepted(op) == last.op = op /\ last.result = Ok
    IN  /\ accepted("submitData") =>
              /\ lastSubmissionTime = [pre.lastSubmissionTime EXCEPT ![s] = pre.now]
              /\ lastDecryptionRequestTime = pre.lastDecryptionRequestTime
        /\ accepted("requestBatchDecryption") =>
              /\ lastDecryptionRequestTime =
                    [pre.lastDecryptionRequestTime EXCEPT ![s] = pre.now]
              /\ lastSubmissionTime = pre.lastSubmissionTime
        /\ ~(accepted("submitData") \/ accepted("requestBatchDecryption")) =>
              /\ lastSubmissionTime = pre.lastSubmissionTime
              /\ lastDecryptionRequestTime = pre.lastDecryptionRequestTime

C11_Witness ==
    /\ last.op = "submitData"
    /\ last.result = Ok
    /\ lastSubmissionTime[last.sender] = pre.now
    /\ pre.lastSubmissionTime[last.sender] # pre.now
    /\ \E a \in Addresses : lastDecryptionRequestTime[a] > 0
    /\ lastDecryptionRequestTime = pre.lastDecryptionRequestTime

(* The notifications openBatch emits when called in state st *)
OpenNotifications(st) ==
    (IF st.currentBatch.isOpen THEN <<BatchClosed(st.currentBatch.id)>> ELSE <<>>)
       \o <<BatchOpened(st.currentBatch.id + 1)>>

(* C12 as claimed: of two consecutive successful openBatch calls each     *)
(* emits one BatchClosed followed by one BatchOpened (two pairs), also    *)
(* when the first is made in the freshly constructed state.               *)
C12_TwoOpensTwoPairs ==
    (last.op = "openBatch" /\ last.result = Ok /\ last.afterOpen > 0) =>
       /\ last.afterOpen = 2
       /\ events.batch = pre.events.batch
                           \o <<BatchClosed(pre.currentBatch.id),
                                BatchOpened(pre.currentBatch.id + 1)>>

(* C12 as amended: every successful openBatch emits BatchOpened(id + 1),  *)
(* preceded by BatchClosed(id) exactly when the batch was open at the     *)
(* call.  So of two consecutive successful calls the second emits the     *)
(* pair BatchClosed/BatchOpened and the first emits the pair only if the  *)
(* batch was open before it: two BatchOpened, one or two BatchClosed.     *)
C12_OpenClosesOnlyOpenBatch ==
    (last.op = "openBatch" /\ last.result = Ok) =>
       /\ events.batch = pre.events.batch \o OpenNotifications(pre)
       /\ last.afterOpen > 0 =>
             /\ pre.currentBatch.isOpen
             /\ Len(OpenNotifications(pre)) = 2
             /\ last.afterOpen \in {1, 2}
             /\ pre.events.batch[Len(pre.events.batch)] =
                   BatchOpened(pre.currentBatch.id)
             /\ last.afterOpen = 2 =>
                   pre.events.batch[Len(pre.events.batch) - 1] =
                      BatchClosed(pre.currentBatch.id - 1)

C12_Witness ==
    /\ last.op = "openBatch"
    /\ last.result = Ok
    /\ last.afterOpen = 1
    /\ events.batch = <<BatchOpened(2), BatchClosed(2), BatchOpened(3)>>

(* C13: the batch id is strictly monotonic and changed only by openBatch. *)
(* The constructed batch has id 1 and is closed; a successful openBatch   *)
(* makes the current batch (id + 1, open, zero aggregates, count 0); no   *)
(* other call changes the id; no id is opened twice.                      *)
C13_BatchIdMonotonic ==
    /\ last.op = "constructor" => currentBatch = Batch(1, FALSE, <<>>, <<>>, 0)
    /\ currentBatch.id >= pre.currentBatch.id
    /\ currentBatch.id # pre.currentBatch.id =>
          last.op = "openBatch" /\ last.result = Ok
    /\ (last.op = "openBatch" /\ last.result = Ok) =>
          currentBatch = Batch(pre.currentBatch.id + 1, TRUE, <<>>, <<>>, 0)
    /\ \A b \in BatchIds :
          /\ Count(events.batch, LAMBDA ev : ev = BatchOpened(b)) <= 1
          /\ InBatchLog(BatchOpened(b)) => (2 <= b /\ b <= currentBatch.id)

C13_Witness ==
    /\ last.op = "openBatch"
    /\ last.result = Ok
    /\ pre.currentBatch.submissionCount > 0
    /\ pre.currentBatch.id = 2
    /\ currentBatch = Batch(3, TRUE, <<>>, <<>>, 0)

(* The states of the end-to-end scenario: S is the authorised provider,  *)
(* R the request id; the event log fixes which calls were accepted.       *)
E2E_Access(st, S) ==
    /\ st.owner = Deployer
    /\ ~st.paused
    /\ st.cooldownSeconds = DefaultCooldown
    /\ st.isProvider = [a \in Addresses |-> a = S]
    /\ st.events.access = <<ProviderAdded(S)>>

E2E_Constructed(st) ==
    /\ st.owner = Deployer
    /\ ~st.paused
    /\ st.cooldownSeconds = DefaultCooldown
    /\ st.isProvider = [a \in Addresses |-> FALSE]
    /\ st.events = NoEvents
    /\ st.currentBatch = Batch(1, FALSE, <<>>, <<>>, 0)

E2E_Added(st, S) ==
    /\ E2E_Access(st, S)
    /\ st.currentBatch = Batch(1, FALSE, <<>>, <<>>, 0)
    /\ st.events.batch = <<>>
    /\ st.events.decryption = <<>>

E2E_Opened(st, S) ==
    /\ E2E_Access(st, S)
    /\ st.currentBatch = Batch(2, TRUE, <<>>, <<>>, 0)
    /\ st.events.batch = <<BatchOpened(2)>>
    /\ st.events.decryption = <<>>

E2E_SubmittedOnce(st, S) ==
    /\ E2E_Access(st, S)
    /\ st.currentBatch = Batch(2, TRUE, <<5>>, <<3>>, 1)
    /\ st.events.batch = <<BatchOpened(2), DataSubmitted(S, 2)>>
    /\ st.events.decryption = <<>>

E2E_SubmittedTwice(st, S) ==
    /\ E2E_Access(st, S)
    /\ st.currentBatch = Batch(2, TRUE, <<5, 5>>, <<3, 3>>, 2)
    /\ st.events.batch = <<BatchOpened(2), DataSubmitted(S, 2), DataSubmitted(S, 2)>>
    /\ st.events.decryption = <<>>

E2E_Closed(st, S) ==
    /\ E2E_Access(st, S)
    /\ st.currentBatch = Batch(2, FALSE, <<5, 5>>, <<3, 3>>, 2)
    /\ st.events.batch = <<BatchOpened(2), DataSubmitted(S, 2), DataSubmitted(S, 2),
                           BatchClosed(2)>>

E2E_Requested(st, S, R) ==
    /\ E2E_Closed(st, S)
    /\ st.events.decryption = <<DecryptionRequested(R, 2)>>
    /\ st.decryptionContexts[R].batchId = 2
    /\ ~st.decryptionContexts[R].processed

E2E_Completed(st, S, R) ==
    /\ E2E_Closed(st, S)
    /\ st.currentBatch.submissionCount = 2
    /\ st.events.decryption = <<DecryptionRequested(R, 2),
                                DecryptionCompleted(R, 2, 10, 6)>>
    /\ st.decryptionContexts[R].processed

(* C14: the end-to-end scenario.  From the constructed state each step of *)
(* addProvider(S); openBatch (id 2); S submits (5,3) twice, the second at *)
(* least cooldownSeconds after the first; closeBatch;                     *)
(* requestBatchDecryption giving R; myCallback(R) with a valid proof is   *)
(* accepted and leads to the next state of the scenario, ending with      *)
(* DecryptionCompleted(R, 2, 10, 6) and submissionCount 2; one more       *)
(* callback for R fails with ReplayAttempt.                               *)
C14_EndToEnd ==
    \A S \in Addresses :
       LET byOwner(op) == last.op = op /\ last.sender = pre.owner
           fiveThree == last.c = 5 /\ last.e = 3
       IN  /\ (E2E_Constructed(pre) /\ byOwner("addProvider") /\ last.target = S) =>
                 last.result = Ok /\ E2E_Added(Snapshot, S)
           /\ (E2E_Added(pre, S) /\ byOwner("openBatch")) =>
                 last.result = Ok /\ E2E_Opened(Snapshot, S)
           /\ ( /\ E2E_Opened(pre, S)
                /\ last.op = "submitData" /\ last.sender = S /\ fiveThree ) =>
                 last.result = Ok /\ E2E_SubmittedOnce(Snapshot, S)
           /\ ( /\ E2E_SubmittedOnce(pre, S)
                /\ last.op = "submitData" /\ last.sender = S /\ fiveThree
                /\ pre.now >= pre.lastSubmissionTime[S] + pre.cooldownSeconds ) =>
                 last.result = Ok /\ E2E_SubmittedTwice(Snapshot, S)
           /\ (E2E_SubmittedTwice(pre, S) /\ byOwner("closeBatch")) =>
                 /\ last.result = Ok
                 /\ E2E_Closed(Snapshot, S)
                 /\ events.decryption = <<>>
           /\ ( /\ E2E_Closed(pre, S) /\ pre.events.decryption = <<>>
                /\ byOwner("requestBatchDecryption") ) =>
                 last.result = Ok /\ E2E_Requested(Snapshot, S, last.requestId)
           /\ ( /\ E2E_Requested(pre, S, last.requestId)
                /\ last.op = "myCallback" /\ last.proofOk ) =>
                 last.result = Ok /\ E2E_Completed(Snapshot, S, last.requestId)
           /\ (E2E_Completed(pre, S, last.requestId) /\ last.op = "myCallback") =>
                 last.result = "ReplayAttempt" /\ E2E_Completed(Snapshot, S, last.requestId)

C14_Witness ==
    /\ last.op = "myCallback"
    /\ last.result = "ReplayAttempt"
    /\ \E S \in Addresses : E2E_Completed(pre, S, last.requestId)
    /\ currentBatch.submissionCount = 2
    /\ events.decryption = <<DecryptionRequested(last.requestId, 2),
                             DecryptionCompleted(last.requestId, 2, 10, 6)>>

(* C15: all-or-nothing failure.  Whatever call is rejected, by whatever   *)
(* guard, the whole contract state (owner, providers, pause flag,         *)
(* cooldown, both cooldown maps, current batch, contexts) and the event   *)
(* log are what they were before the call.                                *)
C15_AllOrNothing ==
    last.result # Ok =>
       /\ LastCallChangedNothing
       /\ <<owner, isProvider, paused, cooldownSeconds, lastSubmissionTime,
            lastDecryptionRequestTime, currentBatch, decryptionContexts>>
          = <<pre.owner, pre.isProvider, pre.paused, pre.cooldownSeconds,
              pre.lastSubmissionTime, pre.lastDecryptionRequestTime,
              pre.currentBatch, pre.decryptionContexts>>
       /\ events = pre.events

C15_Witness ==
    /\ last.op = "submitData"
    /\ last.result = "Eco score not initialized"
    /\ pre.currentBatch.submissionCount > 0
    /\ pre.lastSubmissionTime[last.sender] < pre.now
    /\ LastCallChangedNothing

(* The callback for request id r meets an unprocessed context of the      *)
(* current batch whose aggregate handles are the ones requested           *)
CallbackMatches(st, r) ==
    /\ PendingIn(st, r)
    /\ st.decryptionContexts[r].batchId = st.currentBatch.id
    /\ BatchCts(st.currentBatch) = st.oracleRequests[r]

(* C16: a callback whose proof fails verification is rejected with        *)
(* InvalidProof, leaves processed unset and emits nothing, however often  *)
(* it is tried; as that changes nothing, a callback for the same request  *)
(* id with a valid proof (batch and aggregates unchanged) then still      *)
(* succeeds, once.                                                        *)
C16_InvalidProofRejected ==
    (last.op = "myCallback" /\ CallbackMatches(pre, last.requestId)) =>
       LET r == last.requestId
       IN  IF last.proofOk
           THEN /\ last.result = Ok
                /\ decryptionContexts[r].processed
                /\ Count(events.decryption, LAMBDA ev : IsCompletedFor(ev, r)) = 1
           ELSE /\ last.result = "InvalidProof"
                /\ ~decryptionContexts[r].processed
                /\ events = pre.events
                /\ LastCallChangedNothing
                /\ CallbackMatches(Snapshot, r)

C16_Witness ==
    /\ last.op = "myCallback"
    /\ ~last.proofOk
    /\ last.result = "InvalidProof"
    /\ CallbackMatches(Snapshot, last.requestId)
    /\ Count(events.decryption, LAMBDA ev : IsCompletedFor(ev, last.requestId)) = 0

(* C17: when openBatch ran between a request r and its callback, so that  *)
(* the context's batch id is no longer the current one, the callback for  *)
(* the unprocessed r fails with InvalidBatchId, valid proof or not, and   *)
(* leaves processed unset.                                                *)
C17_ReopenInvalidatesRequest ==
    ( /\ last.op = "myCallback"
      /\ PendingIn(pre, last.requestId)
      /\ pre.decryptionContexts[last.requestId].batchId # pre.currentBatch.id ) =>
       /\ last.result = "InvalidBatchId"
       /\ ~decryptionContexts[last.requestId].processed
       /\ LastCallChangedNothing

C17_Witness ==
    /\ last.op = "myCallback"
    /\ last.proofOk
    /\ last.result = "InvalidBatchId"
    /\ PendingIn(pre, last.requestId)
    /\ pre.currentBatch.id = pre.decryptionContexts[last.requestId].batchId + 1
    /\ InBatchLog(BatchOpened(pre.currentBatch.id))

OwnerOnlyOps == {"transferOwnership", "addProvider", "removeProvider", "pause",
                 "unpause", "setCooldownSeconds", "openBatch", "closeBatch",
                 "requestBatchDecryption"}

InAccessLog(ev) == \E i \in 1..Len(events.access) : events.access[i] = ev

(* C18: owner-only calls and transfer.  There is exactly one owner; each  *)
(* owner-only call by anybody else fails with NotOwner and changes        *)
(* nothing; a successful transferOwnership(n) makes n the owner and       *)
(* emits OwnershipTransferred(old, n), changing nothing else, after       *)
(* which the old owner (if not n) is rejected like anybody else.          *)
C18_OwnerOnly ==
    /\ Cardinality({a \in Addresses : onlyOwner(a)}) = 1
    /\ (last.op \in OwnerOnlyOps /\ last.sender # pre.owner) =>
          last.result = "NotOwner" /\ LastCallChangedNothing
    /\ (last.op \in OwnerOnlyOps /\ last.sender = pre.owner) =>
          last.result # "NotOwner"
    /\ (last.op = "transferOwnership" /\ last.sender = pre.owner) =>
          /\ last.result = Ok
          /\ owner = last.target
          /\ events.access =
                Append(pre.events.access, OwnershipTransferred(pre.owner, last.target))
          /\ [Snapshot EXCEPT !.now = pre.now] =
                [pre EXCEPT !.owner = last.target, !.events = events]
    /\ last.op # "transferOwnership" => owner = pre.owner

C18_Witness ==
    /\ last.op = "requestBatchDecryption"
    /\ last.sender = Deployer
    /\ last.result = "NotOwner"
    /\ pre.owner # Deployer
    /\ InAccessLog(OwnershipTransferred(Deployer, pre.owner))
    /\ ~pre.currentBatch.isOpen
    /\ pre.currentBatch.submissionCount > 0

PausableOps == {"openBatch", "closeBatch", "submitData", "requestBatchDecryption"}

(* C19: while paused, openBatch, closeBatch, submitData and               *)
(* requestBatchDecryption are rejected, with Paused when the caller       *)
(* passes the authorisation guard, and change nothing; when not paused    *)
(* (so also after unpause) none of them is rejected with Paused and each  *)
(* is admitted when its other guards pass.                                *)
C19_PauseBlocksLedger ==
    last.op \in PausableOps =>
       LET s == last.sender
           authorised == IF last.op = "submitData" THEN pre.isProvider[s]
                                                    ELSE s = pre.owner
           cooled == IF last.op = "submitData"
                     THEN pre.now >= pre.lastSubmissionTime[s] + pre.cooldownSeconds
                     ELSE pre.now >= pre.lastDecryptionRequestTime[s] + pre.cooldownSeconds
           otherGuards ==
              CASE last.op = "openBatch" -> TRUE
                [] last.op = "closeBatch" -> pre.currentBatch.isOpen
                [] last.op = "submitData" ->
                      cooled /\ pre.currentBatch.isOpen /\ last.c # 0 /\ last.e # 0
                [] last.op = "requestBatchDecryption" ->
                      /\ cooled
                      /\ ~pre.currentBatch.isOpen
                      /\ pre.currentBatch.submissionCount > 0
       IN  IF pre.paused
           THEN /\ last.result # Ok
                /\ authorised => last.result = "Paused"
                /\ LastCallChangedNothing
           ELSE /\ last.result # "Paused"
                /\ (authorised /\ otherGuards) => last.result = Ok

C19_Witness ==
    /\ last.op = "submitData"
    /\ last.result = "Paused"
    /\ pre.paused
    /\ pre.isProvider[last.sender]
    /\ pre.currentBatch.isOpen
    /\ last.c # 0 /\ last.e # 0

(* C20 as claimed: pause by the owner when already paused fails with the  *)
(* error AlreadyPaused and changes nothing; unpause by the owner always   *)
(* succeeds, leaves paused = FALSE and changes no other state.            *)
C20_AlreadyPausedError ==
    /\ (last.op = "pause" /\ last.sender = pre.owner /\ pre.paused) =>
          last.result = "AlreadyPaused" /\ LastCallChangedNothing
    /\ (last.op = "unpause" /\ last.sender = pre.owner) =>
          /\ last.result = Ok
          /\ ~paused
          /\ [Snapshot EXCEPT !.now = pre.now, !.events = pre.events] =
                [pre EXCEPT !.paused = FALSE]

(* C20 as amended: pause by the owner when already paused fails with the  *)
(* error Paused and changes nothing; unpause by the owner always          *)
(* succeeds, paused or not, leaves paused = FALSE, emits                  *)
(* ContractUnpaused and changes no other state, so a second unpause       *)
(* leaves the state of the first.                                         *)
C20_PauseUnpauseAsymmetry ==
    /\ (last.op = "pause" /\ last.sender = pre.owner /\ pre.paused) =>
          last.result = "Paused" /\ LastCallChangedNothing
    /\ (last.op = "unpause" /\ last.sender = pre.owner) =>
          /\ last.result = Ok
          /\ ~paused
          /\ [Snapshot EXCEPT !.now = pre.now, !.events = pre.events] =
                [pre EXCEPT !.paused = FALSE]
          /\ events = [pre.events EXCEPT
                          !.access = Append(@, ContractUnpaused(last.sender))]
          /\ ~pre.paused =>
                [Snapshot EXCEPT !.now = pre.now, !.events = pre.events] = pre

C20_Witness ==
    /\ last.op = "pause"
    /\ last.sender = pre.owner
    /\ pre.paused
    /\ last.result = "Paused"
    /\ InAccessLog(ContractPaused(pre.owner))

(* The notifications of the access log that are about provider p *)
ProviderLog(p) ==
    SelectSeq(events.access,
              LAMBDA ev : ev = ProviderAdded(p) \/ ev = ProviderRemoved(p))

(* C21: addProvider and removeProvider are idempotent.  Called for a      *)
(* provider already in the wanted state they succeed, change nothing and  *)
(* emit nothing; otherwise they flip the flag and emit ProviderAdded /    *)
(* ProviderRemoved; so for each p these notifications alternate in the    *)
(* log, starting with ProviderAdded.                                      *)
C21_ProviderIdempotent ==
    /\ (last.op \in {"addProvider", "removeProvider"} /\ last.sender = pre.owner) =>
          LET p == last.target
              wanted == last.op = "addProvider"
              ev == IF wanted THEN ProviderAdded(p) ELSE ProviderRemoved(p)
          IN  /\ last.result = Ok
              /\ isProvider[p] = wanted
              /\ IF pre.isProvider[p] = wanted
                 THEN LastCallChangedNothing
                 ELSE /\ events.access = Append(pre.events.access, ev)
                      /\ [Snapshot EXCEPT !.now = pre.now] =
                            [pre EXCEPT !.isProvider[p] = wanted, !.events = events]
    /\ \A p \in Addresses :
          LET log == ProviderLog(p)
          IN  /\ \A i \in 1..Len(log) :
                    log[i] = IF i % 2 = 1 THEN ProviderAdded(p) ELSE ProviderRemoved(p)
              /\ isProvider[p] <=> (Len(log) % 2 = 1)

C21_Witness ==
    /\ last.op = "removeProvider"
    /\ last.sender = pre.owner
    /\ last.result = Ok
    /\ ~pre.isProvider[last.target]
    /\ LastCallChangedNothing
    /\ events.access = <<ProviderAdded(last.target), ProviderRemoved(last.target)>>

(* C22: setCooldownSeconds(n) by the owner fails with "Cooldown must be   *)
(* positive" when n <= 0 and otherwise sets cooldownSeconds to n and      *)
(* emits CooldownSecondsUpdated(old, n); so cooldownSeconds > 0 in every  *)
(* reachable state (60 after construction).                               *)
C22_CooldownPositive ==
    /\ cooldownSeconds > 0
    /\ last.op = "constructor" => cooldownSeconds = DefaultCooldown
    /\ (last.op = "setCooldownSeconds" /\ last.sender = pre.owner) =>
          IF last.c <= 0
          THEN last.result = "Cooldown must be positive" /\ LastCallChangedNothing
          ELSE /\ last.result = Ok
               /\ cooldownSeconds = last.c
               /\ events.access =
                     Append(pre.events.access,
                            CooldownSecondsUpdated(pre.cooldownSeconds, last.c))
    /\ cooldownSeconds # pre.cooldownSeconds =>
          last.op = "setCooldownSeconds" /\ last.result = Ok

C22_Witness ==
    /\ last.op = "setCooldownSeconds"
    /\ last.result = Ok
    /\ pre.cooldownSeconds = DefaultCooldown
    /\ cooldownSeconds = 1
    /\ InAccessLog(CooldownSecondsUpdated(DefaultCooldown, 1))

(* The aggregate handle the contract holds after the contributions of    *)
(* seq were submitted in the order of seq to a fresh batch                *)
RECURSIVE Aggregate(_)
Aggregate(seq) ==
    IF seq = <<>> THEN <<>>
    ELSE FHEadd(Aggregate(SubSeq(seq, 1, Len(seq) - 1)), seq[Len(seq)])

Reorderings(n) == {f \in [1..n -> 1..n] : \A i, j \in 1..n : f[i] = f[j] => i = j}

Reordered(seq, f) == [i \in 1..Len(seq) |-> seq[f[i]]]

(* C23: order independence of aggregation.  Each accepted submission adds *)
(* its contribution to what the two aggregates decrypt to, so the totals  *)
(* are the sums of the accepted contributions, and submitting the same    *)
(* contributions in any other order gives aggregates that decrypt to the  *)
(* same totals.                                                           *)
C23_OrderIndependence ==
    LET cong == currentBatch.totalEncryptedCongestionScore
        eco == currentBatch.totalEncryptedEcoScore
    IN  /\ (last.op = "submitData" /\ last.result = Ok) =>
              /\ Decrypt(cong) =
                    Decrypt(pre.currentBatch.totalEncryptedCongestionScore) + last.c
              /\ Decrypt(eco) =
                    Decrypt(pre.currentBatch.totalEncryptedEcoScore) + last.e
        /\ (last.op = "openBatch" /\ last.result = Ok) =>
              Decrypt(cong) = 0 /\ Decrypt(eco) = 0
        /\ Len(cong) = currentBatch.submissionCount
        /\ Len(eco) = currentBatch.submissionCount
        /\ \A f \in Reorderings(currentBatch.submissionCount) :
              /\ Decrypt(Aggregate(Reordered(cong, f))) = Decrypt(cong)
              /\ Decrypt(Aggregate(Reordered(eco, f))) = Decrypt(eco)

C23_Witness ==
    /\ last.op = "closeBatch"
    /\ last.result = Ok
    /\ currentBatch.totalEncryptedCongestionScore = <<3, 5>>
    /\ currentBatch.totalEncryptedEcoScore = <<5, 3>>
    /\ Decrypt(currentBatch.totalEncryptedCongestionScore) = 8

(* C24: closeBatch by the owner, not paused, fails with BatchNotOpen when *)
(* the current batch is not open (the constructed batch, or a batch just  *)
(* closed); when it succeeds it sets isOpen to false, emits               *)
(* BatchClosed(id) and leaves id, aggregates and submissionCount alone.   *)
C24_CloseBatch ==
    (last.op = "closeBatch" /\ last.sender = pre.owner /\ ~pre.paused) =>
       IF ~pre.currentBatch.isOpen
       THEN last.result = "BatchNotOpen" /\ LastCallChangedNothing
       ELSE /\ last.result = Ok
            /\ currentBatch = [pre.currentBatch EXCEPT !.isOpen = FALSE]
            /\ events = [pre.events EXCEPT
                            !.batch = Append(@, BatchClosed(pre.currentBatch.id))]
            /\ [Snapshot EXCEPT !.now = pre.now] =
                  [pre EXCEPT !.currentBatch = currentBatch, !.events = events]

C24_Witness ==
    /\ last.op = "closeBatch"
    /\ last.sender = pre.owner
    /\ last.result = "BatchNotOpen"
    /\ ~pre.paused
    /\ pre.events.batch # <<>>
    /\ pre.events.batch[Len(pre.events.batch)] = BatchClosed(pre.currentBatch.id)

(* The first guard of submitData that call (s, c, e) violates in state    *)
(* st, in the order authorisation, pause, cooldown, batch open, handles   *)
SubmitVerdict(st, s, c, e) ==
    IF ~st.isProvider[s] THEN "NotProvider"
    ELSE IF st.paused THEN "Paused"
    ELSE IF st.now < st.lastSubmissionTime[s] + st.cooldownSeconds THEN "CooldownActive"
    ELSE IF ~st.currentBatch.isOpen THEN "BatchNotOpen"
    ELSE IF c = 0 THEN "Congestion score not initialized"
    ELSE IF e = 0 THEN "Eco score not initialized"
    ELSE Ok

(* The first guard of requestBatchDecryption a call by s violates in st,  *)
(* in the order owner, pause, cooldown, batch closed, submissions         *)
RequestVerdict(st, s) ==
    IF s # st.owner THEN "NotOwner"
    ELSE IF st.paused THEN "Paused"
    ELSE IF st.now < st.lastDecryptionRequestTime[s] + st.cooldownSeconds
         THEN "CooldownActive"
    ELSE IF st.currentBatch.isOpen THEN "BatchNotOpen"
    ELSE IF st.currentBatch.submissionCount = 0 THEN "No data to decrypt"
    ELSE Ok

(* Whether the guards of a command, none of which looks at the decryption *)
(* contexts, admit the call in state st                                   *)
Admitted(st, call) ==
    LET byOwner == call.sender = st.owner
    IN  CASE call.op \in {"transferOwnership", "addProvider", "removeProvider",
                          "unpause"} -> byOwner
          [] call.op = "pause" -> byOwner /\ ~st.paused
          [] call.op = "setCooldownSeconds" -> byOwner /\ call.c > 0
          [] call.op = "openBatch" -> byOwner /\ ~st.paused
          [] call.op = "closeBatch" ->
                byOwner /\ ~st.paused /\ st.currentBatch.isOpen
          [] call.op = "submitData" ->
                SubmitVerdict(st, call.sender, call.c, call.e) = Ok
          [] call.op = "requestBatchDecryption" ->
                RequestVerdict(st, call.sender) = Ok

Commands == OwnerOnlyOps \cup {"submitData"}

(* C25: no timeout or eviction of pending requests.  A context, once      *)
(* created, is never deleted and keeps its batchId and stateHash; its     *)
(* processed flag changes only by a successful myCallback for its own     *)
(* request id; and while some context is pending every command is         *)
(* admitted exactly when its own guards pass.                             *)
C25_NoEviction ==
    /\ \A r \in ReqIds :
          pre.decryptionContexts[r] # EmptyContext =>
             /\ decryptionContexts[r] # EmptyContext
             /\ decryptionContexts[r].batchId = pre.decryptionContexts[r].batchId
             /\ decryptionContexts[r].stateHash = pre.decryptionContexts[r].stateHash
             /\ decryptionContexts[r].processed # pre.decryptionContexts[r].processed =>
                   /\ last.op = "myCallback"
                   /\ last.result = Ok
                   /\ last.requestId = r
                   /\ decryptionContexts[r].processed
    /\ ( /\ \E r \in ReqIds : PendingIn(pre, r)
         /\ last.op \in Commands ) =>
          (last.result = Ok <=> Admitted(pre, last))

C25_Witness ==
    /\ last.op = "openBatch"
    /\ last.result = Ok
    /\ \E r \in ReqIds :
          /\ PendingIn(pre, r)
          /\ pre.decryptionContexts[r].batchId = pre.currentBatch.id
          /\ PendingIn(Snapshot, r)
          /\ decryptionContexts[r] = pre.decryptionContexts[r]

IsSubmittedTo(ev, b) == ev.name = "DataSubmitted" /\ ev.batchId = b

(* C26: submissionCount of the current batch is the number of             *)
(* DataSubmitted(_, currentBatch.id) emitted so far; an accepted          *)
(* submitData raises it by 1 and emits one DataSubmitted(sender, id);     *)
(* nothing else raises it; it is 0 exactly when nothing was accepted      *)
(* into the current batch.                                                *)
C26_CountMatchesLog ==
    /\ currentBatch.submissionCount =
          Count(events.batch, LAMBDA ev : IsSubmittedTo(ev, currentBatch.id))
    /\ (last.op = "submitData" /\ last.result = Ok) =>
          /\ currentBatch.submissionCount = pre.currentBatch.submissionCount + 1
          /\ events.batch =
                Append(pre.events.batch, DataSubmitted(last.sender, pre.currentBatch.id))
          /\ events.access = pre.events.access
          /\ events.decryption = pre.events.decryption
    /\ ~(last.op = "submitData" /\ last.result = Ok) =>
          \/ currentBatch.submissionCount = pre.currentBatch.submissionCount
          \/ /\ last.op = "openBatch" /\ last.result = Ok
             /\ currentBatch.submissionCount = 0

C26_Witness ==
    /\ last.op = "submitData"
    /\ last.result = Ok
    /\ currentBatch.id = 3
    /\ currentBatch.submissionCount = 1
    /\ Count(events.batch, LAMBDA ev : IsSubmittedTo(ev, 2)) = 1

(* C27: openBatch event order.  On an open batch a successful openBatch   *)
(* emits BatchClosed(old) immediately followed by BatchOpened(old + 1);   *)
(* on a closed batch only BatchOpened(old + 1); in the whole log, for     *)
(* every id, BatchOpened(id) and BatchClosed(id) occur at most once and   *)
(* BatchClosed(id) only after BatchOpened(id).                            *)
C27_OpenEventOrder ==
    /\ (last.op = "openBatch" /\ last.result = Ok) =>
          LET old == pre.currentBatch.id
          IN  IF pre.currentBatch.isOpen
              THEN events.batch =
                      pre.events.batch \o <<BatchClosed(old), BatchOpened(old + 1)>>
              ELSE events.batch = Append(pre.events.batch, BatchOpened(old + 1))
    /\ \A b \in BatchIds :
          /\ Count(events.batch, LAMBDA ev : ev = BatchOpened(b)) <= 1
          /\ Count(events.batch, LAMBDA ev : ev = BatchClosed(b)) <= 1
          /\ \A j \in 1..Len(events.batch) :
                events.batch[j] = BatchClosed(b) =>
                   \E i \in 1..(j - 1) : events.batch[i] = BatchOpened(b)

C27_Witness ==
    /\ last.op = "openBatch"
    /\ last.result = Ok
    /\ pre.currentBatch.isOpen
    /\ pre.currentBatch.submissionCount > 0
    /\ Len(events.batch) > 2
    /\ SubSeq(events.batch, Len(events.batch) - 1, Len(events.batch)) =
          <<BatchClosed(pre.currentBatch.id), BatchOpened(currentBatch.id)>>

(* The first guard of myCallback that call (r, proofOk) violates in state *)
(* st, in the order replay, batch id, state hash, proof                   *)
CallbackVerdict(st, r, proofOk) ==
    LET ctx == st.decryptionContexts[r]
    IN  IF ctx.processed THEN "ReplayAttempt"
        ELSE IF st.currentBatch.id # ctx.batchId THEN "InvalidBatchId"
        ELSE IF _hashCiphertexts(BatchCts(st.currentBatch)) # ctx.stateHash
             THEN "StateMismatch"
        ELSE IF ~proofOk THEN "InvalidProof"
        ELSE Ok

(* C28 as claimed: the error reported is that of the first violated guard *)
(* in the order: submitData authorisation, pause, cooldown, batch open,   *)
(* handles; requestBatchDecryption owner, pause, cooldown, batch closed,  *)
(* submissions; myCallback replay, batch id, state hash, proof.           *)
C28_GuardOrderAsClaimed ==
    /\ last.op = "submitData" =>
          last.result = SubmitVerdict(pre, last.sender, last.c, last.e)
    /\ last.op = "requestBatchDecryption" =>
          last.result = RequestVerdict(pre, last.sender)
    /\ last.op = "myCallback" =>
          last.result = CallbackVerdict(pre, last.requestId, last.proofOk)

(* C28 as amended: the same, except that myCallback first rejects         *)
(* request id 0 with "Invalid request ID", before the replay check.       *)
C28_GuardOrder ==
    /\ last.op = "submitData" =>
          last.result = SubmitVerdict(pre, last.sender, last.c, last.e)
    /\ last.op = "requestBatchDecryption" =>
          last.result = RequestVerdict(pre, last.sender)
    /\ last.op = "myCallback" =>
          last.result = IF last.requestId = 0
                        THEN "Invalid request ID"
                        ELSE CallbackVerdict(pre, last.requestId, last.proofOk)

C28_Witness ==
    /\ last.op = "myCallback"
    /\ ~last.proofOk
    /\ last.result = "StateMismatch"
    /\ PendingIn(pre, last.requestId)
    /\ pre.decryptionContexts[last.requestId].batchId = pre.currentBatch.id
    /\ pre.paused

(* C29: StateMismatch is unreachable through the public functions.  Every *)
(* context whose batchId is the current batch id refers to a closed batch *)
(* with submissions whose aggregate handles hash to the stored stateHash, *)
(* so a callback that passes the replay and batch id checks passes the    *)
(* state hash check.                                                      *)
C29_StateMismatchUnreachable ==
    /\ \A r \in ReqIds :
          ( /\ decryptionContexts[r] # EmptyContext
            /\ decryptionContexts[r].batchId = currentBatch.id ) =>
             /\ ~currentBatch.isOpen
             /\ currentBatch.submissionCount > 0
             /\ _hashCiphertexts(BatchCts(currentBatch)) = decryptionContexts[r].stateHash
    /\ last.result # "StateMismatch"
    /\ ( /\ last.op = "myCallback"
         /\ last.requestId # 0
         /\ ~pre.decryptionContexts[last.requestId].processed
         /\ pre.decryptionContexts[last.requestId].batchId = pre.currentBatch.id ) =>
          last.result \in {Ok, "InvalidProof"}

C29_Witness ==
    /\ last.op = "submitData"
    /\ last.result = "BatchNotOpen"
    /\ last.c # 0 /\ last.e # 0
    /\ \E r \in ReqIds :
          /\ PendingIn(Snapshot, r)
          /\ decryptionContexts[r].batchId = currentBatch.id
          /\ _hashCiphertexts(BatchCts(currentBatch)) = decryptionContexts[r].stateHash

(* Request r is unprocessed and was made for a batch before the current one *)
Stale(st, r) ==
    /\ PendingIn(st, r)
    /\ st.decryptionContexts[r].batchId < st.currentBatch.id

(* C30: a pending request is lost for good once a new batch is opened.    *)
(* Unprocessed contexts of different batches can be outstanding together; *)
(* one whose batch id is below the current id stays so and unprocessed    *)
(* whatever is called, every callback for it fails with InvalidBatchId,   *)
(* and a callback succeeds only for a context of the current batch.       *)
C30_StaleRequestLost ==
    /\ \A r \in ReqIds :
          /\ decryptionContexts[r].batchId <= currentBatch.id
          /\ Stale(pre, r) => Stale(Snapshot, r)
          /\ Stale(Snapshot, r) =>
                Count(events.decryption, LAMBDA ev : IsCompletedFor(ev, r)) = 0
    /\ (last.op = "myCallback" /\ Stale(pre, last.requestId)) =>
          last.result = "InvalidBatchId" /\ LastCallChangedNothing
    /\ (last.op = "myCallback" /\ last.result = Ok) =>
          pre.decryptionContexts[last.requestId].batchId = pre.currentBatch.id

C30_Witness ==
    /\ last.op = "myCallback"
    /\ last.proofOk
    /\ last.result = "InvalidBatchId"
    /\ Stale(Snapshot, last.requestId)
    /\ \E r \in ReqIds :
          /\ PendingIn(Snapshot, r)
          /\ decryptionContexts[r].batchId = currentBatch.id
          /\ decryptionContexts[r].batchId # decryptionContexts[last.requestId].batchId

(* C31: a callback for a request id that was never issued can never      *)
(* complete, verifying proof or not.  The current batch id is at least 1  *)
(* and a context never written has batchId 0, so such a callback is       *)
(* rejected before the proof is looked at, sets no processed flag and     *)
(* emits nothing; every DecryptionCompleted(R, b, ..) in the log comes    *)
(* after a DecryptionRequested(R, b).                                     *)
C31_UnissuedNeverCompletes ==
    /\ currentBatch.id >= 1
    /\ \A r \in ReqIds :
          ~Issued(r) =>
             /\ decryptionContexts[r] = EmptyContext
             /\ decryptionContexts[r].batchId # currentBatch.id
             /\ Count(events.decryption, LAMBDA ev : IsCompletedFor(ev, r)) = 0
    /\ (last.op = "myCallback" /\ ~IssuedIn(pre, last.requestId)) =>
          /\ last.result \notin {Ok, "InvalidProof", "StateMismatch"}
          /\ LastCallChangedNothing
    /\ \A j \in 1..Len(events.decryption) :
          LET ev == events.decryption[j]
          IN  ev.name = "DecryptionCompleted" =>
                 \E i \in 1..(j - 1) :
                    events.decryption[i] = DecryptionRequested(ev.requestId, ev.batchId)

C31_Witness ==
    /\ last.op = "myCallback"
    /\ last.proofOk
    /\ last.requestId # 0
    /\ ~IssuedIn(pre, last.requestId)
    /\ last.result # Ok
    /\ \E j \in 1..Len(events.decryption) :
          events.decryption[j].name = "DecryptionCompleted"

(* C32: myCallback is gated neither by the pause flag, nor by who calls,  *)
(* nor by a cooldown.  Called by anybody (owner, provider or stranger),   *)
(* paused or not, at any time, for an unprocessed context of the current  *)
(* closed batch with a verifying proof, it succeeds, sets processed and   *)
(* emits DecryptionCompleted; its outcome depends on the request id, the  *)
(* proof and the contexts only.                                           *)
C32_CallbackUngated ==
    last.op = "myCallback" =>
       LET r == last.requestId
       IN  /\ last.result = IF r = 0 THEN "Invalid request ID"
                            ELSE CallbackVerdict(pre, r, last.proofOk)
           /\ last.result \notin {"Paused", "NotOwner", "NotProvider", "CooldownActive"}
           /\ (CallbackMatches(pre, r) /\ last.proofOk) =>
                 /\ last.result = Ok
                 /\ ~pre.currentBatch.isOpen
                 /\ decryptionContexts[r].processed
                 /\ events.decryption =
                       Append(pre.events.decryption,
                              DecryptionCompleted(r, pre.currentBatch.id,
                                 Decrypt(pre.currentBatch.totalEncryptedCongestionScore),
                                 Decrypt(pre.currentBatch.totalEncryptedEcoScore)))
                 /\ lastSubmissionTime = pre.lastSubmissionTime
                 /\ lastDecryptionRequestTime = pre.lastDecryptionRequestTime

C32_Witness ==
    /\ last.op = "myCallback"
    /\ last.result = Ok
    /\ pre.paused
    /\ last.sender # pre.owner
    /\ \A a \in Addresses : pre.isProvider[a] => last.sender # a
    /\ \E a \in Addresses : pre.isProvider[a]
    /\ decryptionContexts[last.requestId].processed

====
